---- MODULE Spec2Model ----
(***************************************************************************)
(* A model of src/components/RetirementCalculator.tsx: the React component *)
(* RetirementCalculator, its state (inputs, results), the change handler   *)
(* handleInputChange, the effect that reruns calculateRetirement whenever  *)
(* inputs is replaced, and the projection arithmetic itself.               *)
(*                                                                         *)
(* JavaScript numbers are IEEE-754 binary floating point.  They are        *)
(* modelled as binary floating point values with NaN, +Infinity and        *)
(* -Infinity, round-to-nearest-even after every operation, and a           *)
(* significand of Prec bits (a double has 53).  The exponent is not        *)
(* bounded (no input enumerated below comes near 2^1024 or 2^-1074), and   *)
(* -0 is identified with +0.                                               *)
(***************************************************************************)
EXTENDS Integers, Sequences, FiniteSets, TLC

\* Bits of the significand of a number (53 in the program).
Prec == 13

----------------------------------------------------------------------------
(* Numbers *)

NaN == [k |-> "nan", m |-> 0, e |-> 0]
PosInf == [k |-> "inf", m |-> 1, e |-> 0]
NegInf == [k |-> "inf", m |-> -1, e |-> 0]
Zero == [k |-> "fin", m |-> 0, e |-> 0]

IsNaN(x) == x.k = "nan"
IsInf(x) == x.k = "inf"
IsFinite(x) == x.k = "fin"

AbsInt(n) == IF n < 0 THEN -n ELSE n
SgnInt(n) == IF n < 0 THEN -1 ELSE IF n > 0 THEN 1 ELSE 0

RECURSIVE BitLen(_)
BitLen(n) == IF n = 0 THEN 0 ELSE 1 + BitLen(n \div 2)

\* The number nearest to n * 2^e that has a significand of Prec bits
\* (ties to the even significand): the rounding every operation ends with.
Fin(n, e) ==
  IF n = 0 THEN Zero
  ELSE LET a == AbsInt(n)
           L == BitLen(a)
       IN IF L <= Prec
          THEN [k |-> "fin", m |-> SgnInt(n) * a * 2^(Prec - L), e |-> e - (Prec - L)]
          ELSE LET sh == L - Prec
                   q == a \div 2^sh
                   r == a % 2^sh
                   half == 2^(sh - 1)
                   up == r > half \/ (r = half /\ q % 2 = 1)
                   q2 == IF up THEN q + 1 ELSE q
               IN IF q2 = 2^Prec
                  THEN [k |-> "fin", m |-> SgnInt(n) * 2^(Prec - 1), e |-> e + sh + 1]
                  ELSE [k |-> "fin", m |-> SgnInt(n) * q2, e |-> e + sh]

\* The number nearest to (n / d) * 2^e, for integers n and d > 0: the quotient
\* is taken to Prec + 2 bits and a sticky bit records a remainder.
DivRound(n, d, e) ==
  IF n = 0 THEN Zero
  ELSE LET a == AbsInt(n)
           need == Prec + 2 + BitLen(d) - BitLen(a)
           K == IF need > 0 THEN need ELSE 0
           num == a * 2^K
           q == num \div d
           sticky == IF num % d = 0 THEN 0 ELSE 1
       IN Fin(SgnInt(n) * (2 * q + sticky), e - K - 1)

FromInt(n) == Fin(n, 0)
One == FromInt(1)

Neg(x) == IF IsNaN(x) THEN NaN ELSE [x EXCEPT !.m = -x.m]
Abs(x) == IF IsNaN(x) THEN NaN ELSE [x EXCEPT !.m = AbsInt(x.m)]

Mul(x, y) ==
  IF IsNaN(x) \/ IsNaN(y) THEN NaN
  ELSE IF IsInf(x) \/ IsInf(y)
       THEN IF x.m = 0 \/ y.m = 0 THEN NaN
            ELSE IF SgnInt(x.m) = SgnInt(y.m) THEN PosInf ELSE NegInf
       ELSE Fin(x.m * y.m, x.e + y.e)

Div(x, y) ==
  IF IsNaN(x) \/ IsNaN(y) THEN NaN
  ELSE IF IsInf(x)
       THEN IF IsInf(y) THEN NaN
            ELSE IF SgnInt(x.m) * SgnInt(y.m) < 0 THEN NegInf ELSE PosInf
       ELSE IF IsInf(y) THEN Zero
            ELSE IF y.m = 0
                 THEN IF x.m = 0 THEN NaN
                      ELSE IF x.m < 0 THEN NegInf ELSE PosInf
                 ELSE DivRound(x.m * SgnInt(y.m), AbsInt(y.m), x.e - y.e)

Add(x, y) ==
  IF IsNaN(x) \/ IsNaN(y) THEN NaN
  ELSE IF IsInf(x)
       THEN IF IsInf(y) /\ x.m # y.m THEN NaN ELSE x
       ELSE IF IsInf(y) THEN y
            ELSE IF x.m = 0 THEN y
                 ELSE IF y.m = 0 THEN x
                      ELSE LET hi == IF x.e >= y.e THEN x ELSE y
                               lo == IF x.e >= y.e THEN y ELSE x
                               d == hi.e - lo.e
                           IN IF d > Prec + 2
                              THEN Fin(hi.m * 8 + SgnInt(lo.m), hi.e - 3)
                              ELSE Fin(hi.m * 2^d + lo.m, lo.e)

Sub(x, y) == Add(x, Neg(y))

\* x > y.  Of two numbers of one sign the one with the larger exponent, or at
\* equal exponents the larger significand, has the larger magnitude.
MagGt(x, y) ==
  IF IsInf(x) THEN ~IsInf(y)
  ELSE IF IsInf(y) THEN FALSE
       ELSE IF y.m = 0 THEN x.m # 0
            ELSE IF x.m = 0 THEN FALSE
                 ELSE x.e > y.e \/ (x.e = y.e /\ AbsInt(x.m) > AbsInt(y.m))

Gt(x, y) ==
  IF IsNaN(x) \/ IsNaN(y) THEN FALSE
  ELSE LET sx == SgnInt(x.m)
           sy == SgnInt(y.m)
       IN IF sx # sy THEN sx > sy
          ELSE IF sx > 0 THEN MagGt(x, y)
               ELSE IF sx < 0 THEN MagGt(y, x) ELSE FALSE

\* Math.round: the integer nearest to x, a half rounding towards +Infinity.
MathRound(x) ==
  IF ~IsFinite(x) THEN x
  ELSE IF x.e >= 0 THEN x
       ELSE LET k == -x.e
            IN IF k > Prec + 1 THEN Zero
               ELSE LET t == x.m + 2^(k - 1)
                        fl == IF t >= 0 THEN t \div 2^k
                              ELSE -((-t + 2^k - 1) \div 2^k)
                    IN FromInt(fl)

ToInt(x) == IF x.e >= 0 THEN x.m * 2^x.e ELSE x.m \div 2^(-x.e)

RECURSIVE PowNat(_, _)
PowNat(x, n) ==
  IF n = 1 THEN x
  ELSE IF n % 2 = 0
       THEN LET h == PowNat(x, n \div 2) IN Mul(h, h)
       ELSE Mul(x, PowNat(x, n - 1))

\* Math.pow for the exponents the ages produce (whole numbers): x^0 is 1 for
\* every x, a NaN operand gives NaN, a negative exponent the reciprocal.
MathPow(x, y) ==
  IF IsNaN(y) THEN NaN
  ELSE IF IsFinite(y) /\ y.m = 0 THEN One
       ELSE IF IsNaN(x) THEN NaN
            ELSE LET n == ToInt(y)
                 IN IF n > 0 THEN PowNat(x, n) ELSE Div(One, PowNat(x, -n))

----------------------------------------------------------------------------
(* The text of an input element and its coercion by Number() *)

Digits == {"0", "1", "2", "3", "4", "5", "6", "7", "8", "9"}
DigitVal(c) ==
  CASE c = "0" -> 0 [] c = "1" -> 1 [] c = "2" -> 2 [] c = "3" -> 3
    [] c = "4" -> 4 [] c = "5" -> 5 [] c = "6" -> 6 [] c = "7" -> 7
    [] c = "8" -> 8 [] c = "9" -> 9

\* The integer the digit string t reads as (most significant digit first).
RECURSIVE DigitsVal(_)
DigitsVal(t) ==
  IF t = <<>> THEN 0 ELSE 10 * DigitsVal(SubSeq(t, 1, Len(t) - 1)) + DigitVal(t[Len(t)])

\* Number(value) of a string given as its sequence of characters: the empty
\* string is 0, a decimal numeral its nearest number, anything else NaN.
Number(t) ==
  IF t = <<>> THEN Zero
  ELSE LET neg == t[1] = "-"
           body == IF neg THEN SubSeq(t, 2, Len(t)) ELSE t
           dots == {i \in 1..Len(body) : body[i] = "."}
           dot == IF dots = {} THEN Len(body) + 1 ELSE CHOOSE i \in dots : TRUE
           whole == SubSeq(body, 1, dot - 1)
           frac == SubSeq(body, dot + 1, Len(body))
           ok == /\ Cardinality(dots) <= 1
                 /\ Len(whole) + Len(frac) > 0
                 /\ \A i \in 1..Len(body) : i = dot \/ body[i] \in Digits
           n == DigitsVal(whole \o frac)
       IN IF ~ok THEN NaN
          ELSE DivRound(IF neg THEN -n ELSE n, 10^Len(frac), 0)

----------------------------------------------------------------------------
(* The component *)

NumericNames == {"currentAge", "retirementAge", "lifeExpectancy", "currentSavings",
                 "monthlyContributions", "expectedReturn", "inflationRate",
                 "desiredIncome"}
Names == NumericNames \cup {"includeStatePension"}

DEFAULT_INPUTS ==
  [currentAge |-> FromInt(30),
   retirementAge |-> FromInt(65),
   lifeExpectancy |-> FromInt(85),
   currentSavings |-> FromInt(50000),
   monthlyContributions |-> FromInt(500),
   expectedReturn |-> FromInt(7),
   inflationRate |-> FromInt(2),
   desiredIncome |-> FromInt(40000),
   includeStatePension |-> TRUE]

STATE_PENSION_WEEKLY == DivRound(20385, 100, 0)
STATE_PENSION_ANNUAL == Mul(STATE_PENSION_WEEKLY, FromInt(52))

\* results is null (no record) or holds one record.
Null == <<>>

VARIABLES inputs, results, effectPending
vars == <<inputs, results, effectPending>>

\* The locals of calculateRetirement, each a function of the input record.
yearsToInvest(i) == Sub(i.retirementAge, i.currentAge)
yearsInRetirement(i) == Sub(i.lifeExpectancy, i.retirementAge)

realReturnRate(i) ==
  Sub(Div(Add(One, Div(i.expectedReturn, FromInt(100))),
          Add(One, Div(i.inflationRate, FromInt(100)))),
      One)

futureSavings(i) ==
  Mul(i.currentSavings, MathPow(Add(One, realReturnRate(i)), yearsToInvest(i)))

monthlyRate(i) == Div(realReturnRate(i), FromInt(12))
months(i) == Mul(yearsToInvest(i), FromInt(12))

futureContributions(i) ==
  Mul(i.monthlyContributions,
      Div(Sub(MathPow(Add(One, monthlyRate(i)), months(i)), One), monthlyRate(i)))

totalSavings(i) == Add(futureSavings(i), futureContributions(i))

withdrawalRate == DivRound(4, 100, 0)

\* A payout spread over the years in retirement instead of the 4% rule.
annualWithdrawal_annuity(i) == Div(totalSavings(i), yearsInRetirement(i))

annualWithdrawal(i) == Mul(totalSavings(i), withdrawalRate)

\* The state pension added whatever the checkbox says.
statePensionAmount_always(i) == STATE_PENSION_ANNUAL

statePensionAmount(i) == IF i.includeStatePension THEN STATE_PENSION_ANNUAL ELSE Zero
totalAnnualIncome(i) == Add(annualWithdrawal(i), statePensionAmount(i))

shortfall(i) == Sub(i.desiredIncome, totalAnnualIncome(i))

\* shortfall >= 0 in place of shortfall > 0.
isShortfall_ge(i) == Gt(shortfall(i), Zero) \/ shortfall(i) = Zero

isShortfall(i) == Gt(shortfall(i), Zero)

\* The record calculateRetirement passes to setResults.
calculateRetirement(i) ==
  [totalSavings |-> MathRound(totalSavings(i)),
   annualIncome |-> MathRound(totalAnnualIncome(i)),
   shortfall |-> MathRound(Abs(shortfall(i))),
   isShortfall |-> isShortfall(i)]

Init ==
  /\ inputs = DEFAULT_INPUTS
  /\ results = Null
  /\ effectPending = TRUE

\* A recomputation that adds to the savings of the previous result.
useEffect_accumulating ==
  /\ effectPending
  /\ results' = <<[calculateRetirement(inputs) EXCEPT !.totalSavings =
                     IF results = Null THEN @ ELSE Add(@, results[1].totalSavings)]>>
  /\ effectPending' = FALSE
  /\ UNCHANGED inputs

\* A recomputation that gives up, results untouched, when the retirement age
\* is below the current age.
useEffect_guarded ==
  /\ effectPending
  /\ IF Gt(Zero, yearsToInvest(inputs))
     THEN UNCHANGED results
     ELSE results' = <<calculateRetirement(inputs)>>
  /\ effectPending' = FALSE
  /\ UNCHANGED inputs

\* The effect with dependency [inputs]: it runs after the first render and
\* after every render in which inputs is a new object.
useEffect ==
  /\ effectPending
  /\ results' = <<calculateRetirement(inputs)>>
  /\ effectPending' = FALSE
  /\ UNCHANGED inputs

\* The texts typed into the number input called name (a number input hands
\* the handler a decimal numeral or the empty string), as character sequences.
Texts(name) ==
  CASE name = "currentAge" -> {<<"3", "0">>, <<"7", "0">>}
    [] name = "retirementAge" -> {<<"6", "5">>, <<"3", "0">>}
    [] name = "lifeExpectancy" -> {<<"8", "5">>, <<"6", "0">>}
    [] name = "currentSavings" -> {<<"5", "0", "0", "0", "0">>, <<>>}
    [] name = "monthlyContributions" -> {<<"5", "0", "0">>, <<"0">>}
    [] name = "expectedReturn" -> {<<"7">>, <<"2">>, <<"-", "1", "0", "0">>}
    [] name = "inflationRate" -> {<<"2">>, <<"7">>}
    [] name = "desiredIncome" -> {<<"4", "0", "0", "0", "0">>, <<"0">>, <<"0", ".", "5">>}

\* e.target of the change events the form's input elements raise.
Events ==
  [name : {"includeStatePension"}, type : {"checkbox"}, value : {<<"o", "n">>},
   checked : BOOLEAN]
  \cup UNION {[name : {n}, type : {"number"}, value : Texts(n), checked : {FALSE}]
              : n \in NumericNames}

\* The field written into the previous record itself: inputs stays the same
\* object, so no effect is scheduled.
handleInputChange_inplace(e) ==
  /\ ~effectPending
  /\ inputs' = [inputs EXCEPT ![e.name] =
                  IF e.type = "checkbox" THEN e.checked ELSE Number(e.value)]
  /\ UNCHANGED <<results, effectPending>>

\* The new record built without ...prev: the other fields fall back to their
\* defaults.
handleInputChange_noSpread(e) ==
  /\ ~effectPending
  /\ inputs' = [DEFAULT_INPUTS EXCEPT ![e.name] =
                  IF e.type = "checkbox" THEN e.checked ELSE Number(e.value)]
  /\ effectPending' = TRUE
  /\ UNCHANGED results

handleInputChange(e) ==
  /\ ~effectPending
  /\ inputs' = [inputs EXCEPT ![e.name] =
                  IF e.type = "checkbox" THEN e.checked ELSE Number(e.value)]
  /\ effectPending' = TRUE
  /\ UNCHANGED results

Next ==
  \/ useEffect
  \/ \E e \in Events : handleInputChange(e)

Spec == Init /\ [][Next]_vars

----------------------------------------------------------------------------
(* Properties *)

\* x is a whole number.
IsInteger(x) == IsFinite(x) /\ (x.e >= 0 \/ x.m % 2^(-x.e) = 0)

Changed == {n \in Names : inputs[n] # DEFAULT_INPUTS[n]}
FlagFlipped(i) == [i EXCEPT !.includeStatePension = ~@]
PensionOn(i) == [i EXCEPT !.includeStatePension = TRUE]
PensionOff(i) == [i EXCEPT !.includeStatePension = FALSE]
FourPercent(x) == Mul(x, DivRound(4, 100, 0))
WeeklyTimes52 == Mul(DivRound(20385, 100, 0), FromInt(52))

\* C1: whenever the real return rate is exactly zero, the future value of the
\* contributions is monthlyContributions * months and the stored totalSavings,
\* annualIncome and shortfall are finite.
C1_ZeroRateGuarded ==
  (~effectPending /\ inputs.expectedReturn = inputs.inflationRate)
    => /\ realReturnRate(inputs) = Zero
       /\ futureContributions(inputs) = Mul(inputs.monthlyContributions, months(inputs))
       /\ IsFinite(results[1].totalSavings)
       /\ IsFinite(results[1].annualIncome)
       /\ IsFinite(results[1].shortfall)

\* C2: with currentSavings = 0 and monthlyContributions = 0 the result has
\* totalSavings = 0 and annualIncome equal to the rounded state pension when
\* includeStatePension is set, and 0 when it is not.
C2_NothingSavedNothingProjected ==
  (~effectPending /\ inputs.currentSavings = Zero /\ inputs.monthlyContributions = Zero)
    => /\ results[1].totalSavings = Zero
       /\ results[1].annualIncome =
            IF inputs.includeStatePension THEN MathRound(WeeklyTimes52) ELSE Zero

\* C3: isShortfall is true exactly when desiredIncome is greater than the
\* computed total annual income, the reported gap is the (rounded) magnitude of
\* their difference, and at equality the gap is 0 and isShortfall is false.
C3_ShortfallBoundary ==
  ~effectPending =>
    LET want == inputs.desiredIncome
        have == totalAnnualIncome(inputs)
        r == results[1]
    IN /\ r.isShortfall = Gt(want, have)
       /\ r.shortfall = MathRound(IF Gt(want, have) THEN Sub(want, have) ELSE Sub(have, want))
       /\ (want = have => r.shortfall = Zero /\ ~r.isShortfall)

C3_Witness ==
  /\ ~effectPending
  /\ inputs.desiredIncome = totalAnnualIncome(inputs)
  /\ results[1].shortfall = Zero
  /\ ~results[1].isShortfall

\* C4: the total annual income is 4% of the total projected savings, plus
\* 203.85 * 52 when includeStatePension is set; two input records that differ
\* only in the flag have the same totalSavings, and the income with the flag
\* is the income without it plus that constant.
C4_IncomeComposition ==
  ~effectPending =>
    LET w == FourPercent(totalSavings(inputs))
        r == results[1]
    IN /\ r.annualIncome =
            MathRound(IF inputs.includeStatePension THEN Add(w, WeeklyTimes52) ELSE w)
       /\ totalSavings(FlagFlipped(inputs)) = totalSavings(inputs)
       /\ calculateRetirement(FlagFlipped(inputs)).totalSavings = r.totalSavings
       /\ totalAnnualIncome(PensionOff(inputs)) = w
       /\ totalAnnualIncome(PensionOn(inputs)) =
            Add(totalAnnualIncome(PensionOff(inputs)), WeeklyTimes52)

C4_Witness ==
  /\ ~effectPending
  /\ ~inputs.includeStatePension
  /\ Cardinality(Changed) >= 2
  /\ IsFinite(results[1].annualIncome)
  /\ Gt(results[1].annualIncome, Zero)
  /\ Gt(calculateRetirement(PensionOn(inputs)).annualIncome, results[1].annualIncome)

\* C5: in every result record totalSavings, annualIncome and shortfall are
\* whole numbers, each the nearest whole number to the unrounded value with a
\* half rounded up, and shortfall is never negative.
C5_WholeNumbers ==
  ~effectPending =>
    LET r == results[1]
        Nearest(x, v) == /\ IsInteger(v)
                         /\ ~Gt(Sub(v, x), DivRound(1, 2, 0))
                         /\ Gt(Sub(x, v), DivRound(-1, 2, 0)) \/ Sub(x, v) = DivRound(-1, 2, 0)
                         /\ Sub(x, v) # DivRound(1, 2, 0)
    IN /\ Nearest(totalSavings(inputs), r.totalSavings)
       /\ Nearest(totalAnnualIncome(inputs), r.annualIncome)
       /\ Nearest(Abs(shortfall(inputs)), r.shortfall)
       /\ ~Gt(Zero, r.shortfall)

\* C6: results is a function of the current input record alone: whatever
\* input changes and results came before, once no recomputation is pending
\* results is the projection of inputs.
C6_FunctionOfInputs ==
  ~effectPending => results = <<calculateRetirement(inputs)>>

C6_Witness ==
  /\ ~effectPending
  /\ Cardinality(Changed) >= 3
  /\ results = <<calculateRetirement(inputs)>>

\* C7: for every input record, the ages out of order included, the pending
\* recomputation completes and stores the record of the current inputs (three
\* numbers and a boolean): it never leaves results unset or stale.
C7_NoFailure ==
  [][effectPending =>
       /\ ~effectPending'
       /\ results' # Null
       /\ \A f \in {"totalSavings", "annualIncome", "shortfall"} :
            results'[1][f].k \in {"fin", "nan", "inf"}
       /\ results'[1].isShortfall \in BOOLEAN
       /\ results'[1] = calculateRetirement(inputs)]_vars

C7_Witness ==
  /\ ~effectPending
  /\ Gt(inputs.currentAge, inputs.retirementAge)
  /\ Gt(inputs.retirementAge, inputs.lifeExpectancy)
  /\ results = <<calculateRetirement(inputs)>>

\* C8: lifeExpectancy does not influence the result: the stored record is
\* the record of every input record that differs only in lifeExpectancy.
C8_LifeExpectancyUnused ==
  ~effectPending =>
    \A t \in Texts("lifeExpectancy") :
      calculateRetirement([inputs EXCEPT !.lifeExpectancy = Number(t)]) = results[1]

C8_Witness ==
  /\ ~effectPending
  /\ inputs.lifeExpectancy # DEFAULT_INPUTS.lifeExpectancy
  /\ IsFinite(results[1].annualIncome)
  /\ Gt(results[1].totalSavings, Zero)
  /\ results[1] = calculateRetirement([inputs EXCEPT !.lifeExpectancy =
                                         DEFAULT_INPUTS.lifeExpectancy])

\* C9: results starts null; the first recomputation runs on the default
\* inputs (yearsToInvest = 35) with no input change; every input change is
\* followed by one recomputation before the next change; with none pending
\* results is the projection of inputs; once non-null, results stays non-null.
C9_Reactive ==
  /\ (results = Null /\ effectPending = TRUE /\ inputs = DEFAULT_INPUTS)
  /\ [](results = Null =>
          /\ effectPending
          /\ inputs = DEFAULT_INPUTS
          /\ yearsToInvest(inputs) = FromInt(35))
  /\ [](~effectPending => results # Null /\ results[1] = calculateRetirement(inputs))
  /\ [][/\ results # Null => results' # Null
        /\ effectPending => inputs' = inputs /\ ~effectPending'
        /\ ~effectPending => effectPending' /\ results' = results]_vars

C9_Witness ==
  /\ ~effectPending
  /\ inputs.currentAge # DEFAULT_INPUTS.currentAge
  /\ inputs.includeStatePension # DEFAULT_INPUTS.includeStatePension
  /\ results # Null
  /\ results[1] = calculateRetirement(inputs)

\* C10: an input change replaces exactly the field the event names (by a
\* boolean for the checkbox, by the number its text reads as otherwise),
\* leaves the other eight fields as they were and does not write results.
C10_OneFieldReplaced ==
  [][(inputs' # inputs \/ (~effectPending /\ effectPending')) =>
       /\ results' = results
       /\ \E n \in Names :
            /\ \A o \in Names \ {n} : inputs'[o] = inputs[o]
            /\ IF n = "includeStatePension"
               THEN inputs'[n] \in BOOLEAN
               ELSE \E t \in Texts(n) : inputs'[n] = Number(t)]_vars

C10_Witness ==
  /\ effectPending
  /\ results # Null
  /\ Cardinality(Changed) >= 2
  /\ results[1] # calculateRetirement(inputs)

====
